---- MODULE Spec2Model ----
(***************************************************************************)
(* Model of request.py: the indentation-to-tree reconstruction done by     *)
(* parse_tree_structure (with Node.add_child) and the way main reports     *)
(* its result.  Lines are sequences of one-character strings; nodes are    *)
(* identified by their position in the list `nodes` (1-based, 0 = None).   *)
(***************************************************************************)
EXTENDS Integers, Sequences, FiniteSets, TLC

\* ---------------------------------------------------------------- bounds
MaxLines == 4
MaxLevel == 2

\* ------------------------------------------------------ program constants
\* request.py:116  last_nodes = [None] * 100
LAST_NODES_SIZE == 100
\* request.py:122  level = indent // 2
INDENT_WIDTH == 2

None == 0

\* characters str.lstrip() removes (space and tab stand for all whitespace)
Whitespace == {" ", "\t"}

\* ---------------------------------------------------------------- inputs
Pad(n) == [i \in 1..n |-> " "]

\* one line per level 0..MaxLevel, indented by exact multiples of the width
ShallowLines == {Pad(INDENT_WIDTH * l) \o <<"a">> : l \in 0..MaxLevel}

\* a tab of indentation (1 // 2 = 0) and a trailing space
MixedLines == {<<"\t", "b", " ">>}

\* whitespace-only line
BlankLines == {<<" ", " ">>}

\* lines at the last level the per-level list holds, and the two beyond it
DeepLines == {Pad(INDENT_WIDTH * l) \o <<"a">> : l \in (LAST_NODES_SIZE - 1)..(LAST_NODES_SIZE + 1)}

Lines == ShallowLines \cup MixedLines \cup BlankLines \cup DeepLines

RECURSIVE SeqsUpTo(_)
SeqsUpTo(n) == IF n = 0 THEN {<<>>}
               ELSE LET S == SeqsUpTo(n - 1)
                    IN  S \cup {Append(s, l) : s \in {t \in S : Len(t) = n - 1}, l \in Lines}

Inputs == SeqsUpTo(MaxLines)

\* ----------------------------------------------------------------- state
VARIABLES text_lines, pc, idx, nodes, origin, root_nodes, last_nodes, report

vars == <<text_lines, pc, idx, nodes, origin, root_nodes, last_nodes, report>>

\* ------------------------------------------------------- pure operators
Min(S) == CHOOSE x \in S : \A y \in S : x <= y

\* number of leading whitespace characters of s
LeadingCount(s) == Min({i \in 1..Len(s) : s[i] \notin Whitespace} \cup {Len(s) + 1}) - 1

\* str.strip(): whitespace removed at both ends
strip(s) ==
    LET kept == {i \in 1..Len(s) : s[i] \notin Whitespace}
    IN  IF kept = {} THEN <<>>
        ELSE SubSeq(s, Min(kept), CHOOSE x \in kept : \A y \in kept : x >= y)

\* str.lstrip()
lstrip(s) == SubSeq(s, LeadingCount(s) + 1, Len(s))

\* request.py:120-122
LevelOf(line) == (Len(line) - Len(lstrip(line))) \div INDENT_WIDTH

\* the parent looked up at the node's own level
ParentSlot_same(level) == level

\* request.py:135,137  the slot of last_nodes a new node looks its parent up in
ParentSlot(level) == level - 1

\* Node(text, level): parent None, no children
Node(text, level) == [text |-> text, level |-> level, parent |-> None, children |-> <<>>]

\* add_child without the assignment child.parent = self
add_child_noparent(ns, p, c) == [ns EXCEPT ![p].children = Append(@, c)]

\* Node.add_child: parent p gets child c appended, c.parent = p
add_child(ns, p, c) == [ns EXCEPT ![p].children = Append(@, c), ![c].parent = p]

\* the slot is written only while it is still None
StoreLast_keepFirst(level, n) ==
    IF level < LAST_NODES_SIZE
    THEN /\ last_nodes' = [last_nodes EXCEPT ![level] = IF @ = None THEN n ELSE @]
         /\ idx' = idx + 1
         /\ pc' = "loop"
    ELSE /\ pc' = "raised"
         /\ UNCHANGED <<last_nodes, idx>>

\* last_nodes[level] = node  (IndexError when level is outside the list)
StoreLast(level, n) ==
    IF level < LAST_NODES_SIZE
    THEN /\ last_nodes' = [last_nodes EXCEPT ![level] = n]
         /\ idx' = idx + 1
         /\ pc' = "loop"
    ELSE /\ pc' = "raised"
         /\ UNCHANGED <<last_nodes, idx>>

\* ------------------------------------------------------------------ Init
Init ==
    /\ text_lines \in Inputs
    /\ pc = "start"
    /\ idx = 1
    /\ nodes = <<>>
    /\ origin = <<>>
    /\ root_nodes = <<>>
    /\ last_nodes = [l \in 0..(LAST_NODES_SIZE - 1) |-> None]
    /\ report = "none"

\* main testing for an input without non-blank lines instead of an empty list
MainNoText_blank ==
    /\ pc = "start"
    /\ \A i \in 1..Len(text_lines) : lstrip(text_lines[i]) = <<>>
    /\ report' = "no_text"
    /\ pc' = "exit"
    /\ UNCHANGED <<text_lines, idx, nodes, origin, root_nodes, last_nodes>>

\* main: if not text_lines: print(...); sys.exit(1)
MainNoText ==
    /\ pc = "start"
    /\ text_lines = <<>>
    /\ report' = "no_text"
    /\ pc' = "exit"
    /\ UNCHANGED <<text_lines, idx, nodes, origin, root_nodes, last_nodes>>

\* parse_tree_structure: if not text_lines: return []
\* (main never passes an empty list, other callers may)
ParseEmpty ==
    /\ pc = "start"
    /\ text_lines = <<>>
    /\ pc' = "returned"
    /\ UNCHANGED <<text_lines, idx, nodes, origin, root_nodes, last_nodes, report>>

\* parse_tree_structure: nodes = [], root_nodes = [], last_nodes = [None]*100
\* (called by main on line 180, or by any other caller of the function)
ParseBegin ==
    /\ pc = "start"
    /\ text_lines # <<>>
    /\ nodes' = <<>>
    /\ origin' = <<>>
    /\ root_nodes' = <<>>
    /\ last_nodes' = [l \in 0..(LAST_NODES_SIZE - 1) |-> None]
    /\ idx' = 1
    /\ pc' = "loop"
    /\ UNCHANGED <<text_lines, report>>

\* loop body: blank or whitespace-only line, continue
SkipBlank ==
    /\ pc = "loop"
    /\ idx <= Len(text_lines)
    /\ lstrip(text_lines[idx]) = <<>>
    /\ idx' = idx + 1
    /\ UNCHANGED <<text_lines, pc, nodes, origin, root_nodes, last_nodes, report>>

\* the root inserted at the front of the root sequence
AddRoot_front ==
    /\ pc = "loop"
    /\ idx <= Len(text_lines)
    /\ LET line == text_lines[idx]
           stripped_line == lstrip(line)
           level == LevelOf(line)
           n == Len(nodes) + 1
       IN  /\ stripped_line # <<>>
           /\ level = 0
           /\ nodes' = Append(nodes, Node(stripped_line, level))
           /\ origin' = Append(origin, idx)
           /\ root_nodes' = <<n>> \o root_nodes
           /\ StoreLast(level, n)
    /\ UNCHANGED <<text_lines, report>>

\* loop body: level == 0
AddRoot ==
    /\ pc = "loop"
    /\ idx <= Len(text_lines)
    /\ LET line == text_lines[idx]
           stripped_line == lstrip(line)
           level == LevelOf(line)
           n == Len(nodes) + 1
       IN  /\ stripped_line # <<>>
           /\ level = 0
           /\ nodes' = Append(nodes, Node(stripped_line, level))
           /\ origin' = Append(origin, idx)
           /\ root_nodes' = Append(root_nodes, n)
           /\ StoreLast(level, n)
    /\ UNCHANGED <<text_lines, report>>

\* loop body: level > 0 and last_nodes[level-1] is not None
AttachChild ==
    /\ pc = "loop"
    /\ idx <= Len(text_lines)
    /\ LET line == text_lines[idx]
           stripped_line == lstrip(line)
           level == LevelOf(line)
           n == Len(nodes) + 1
       IN  /\ stripped_line # <<>>
           /\ level # 0
           /\ ParentSlot(level) < LAST_NODES_SIZE
           /\ last_nodes[ParentSlot(level)] # None
           /\ nodes' = add_child(Append(nodes, Node(stripped_line, level)), last_nodes[ParentSlot(level)], n)
           /\ origin' = Append(origin, idx)
           /\ StoreLast(level, n)
    /\ UNCHANGED <<text_lines, root_nodes, report>>

\* a node without a parent candidate promoted to a root
Orphan_promote ==
    /\ pc = "loop"
    /\ idx <= Len(text_lines)
    /\ LET line == text_lines[idx]
           stripped_line == lstrip(line)
           level == LevelOf(line)
           n == Len(nodes) + 1
       IN  /\ stripped_line # <<>>
           /\ level # 0
           /\ ParentSlot(level) < LAST_NODES_SIZE
           /\ last_nodes[ParentSlot(level)] = None
           /\ nodes' = Append(nodes, Node(stripped_line, level))
           /\ origin' = Append(origin, idx)
           /\ root_nodes' = Append(root_nodes, n)
           /\ StoreLast(level, n)
    /\ UNCHANGED <<text_lines, report>>

\* loop body: level > 0 and last_nodes[level-1] is None
Orphan ==
    /\ pc = "loop"
    /\ idx <= Len(text_lines)
    /\ LET line == text_lines[idx]
           stripped_line == lstrip(line)
           level == LevelOf(line)
           n == Len(nodes) + 1
       IN  /\ stripped_line # <<>>
           /\ level # 0
           /\ ParentSlot(level) < LAST_NODES_SIZE
           /\ last_nodes[ParentSlot(level)] = None
           /\ nodes' = Append(nodes, Node(stripped_line, level))
           /\ origin' = Append(origin, idx)
           /\ StoreLast(level, n)
    /\ UNCHANGED <<text_lines, root_nodes, report>>

\* loop body: reading last_nodes[level-1] is itself out of range
RaiseOnRead ==
    /\ pc = "loop"
    /\ idx <= Len(text_lines)
    /\ LET line == text_lines[idx]
           stripped_line == lstrip(line)
           level == LevelOf(line)
       IN  /\ stripped_line # <<>>
           /\ level # 0
           /\ ParentSlot(level) >= LAST_NODES_SIZE
           /\ nodes' = Append(nodes, Node(stripped_line, level))
           /\ origin' = Append(origin, idx)
           /\ pc' = "raised"
    /\ UNCHANGED <<text_lines, idx, root_nodes, last_nodes, report>>

\* return root_nodes
Return ==
    /\ pc = "loop"
    /\ idx > Len(text_lines)
    /\ pc' = "returned"
    /\ UNCHANGED <<text_lines, idx, nodes, origin, root_nodes, last_nodes, report>>

\* main: if not root_nodes: print(...); sys.exit(1)
\* (main gets here only with the non-empty list that passed line 172)
MainNoTree ==
    /\ pc = "returned"
    /\ text_lines # <<>>
    /\ root_nodes = <<>>
    /\ report' = "no_tree"
    /\ pc' = "exit"
    /\ UNCHANGED <<text_lines, idx, nodes, origin, root_nodes, last_nodes>>

\* main: print_tree(root_nodes)
MainPrintTree ==
    /\ pc = "returned"
    /\ text_lines # <<>>
    /\ root_nodes # <<>>
    /\ report' = "tree"
    /\ pc' = "exit"
    /\ UNCHANGED <<text_lines, idx, nodes, origin, root_nodes, last_nodes>>

\* main: except Exception as e: print(...); sys.exit(1)
MainParseError ==
    /\ pc = "raised"
    /\ text_lines # <<>>
    /\ report' = "parse_error"
    /\ pc' = "exit"
    /\ UNCHANGED <<text_lines, idx, nodes, origin, root_nodes, last_nodes>>

Next ==
    \/ MainNoText
    \/ ParseEmpty
    \/ ParseBegin
    \/ SkipBlank
    \/ AddRoot
    \/ AttachChild
    \/ Orphan
    \/ RaiseOnRead
    \/ Return
    \/ MainNoTree
    \/ MainPrintTree
    \/ MainParseError

Spec == Init /\ [][Next]_vars

TypeOK ==
    /\ pc \in {"start", "loop", "returned", "raised", "exit"}
    /\ idx \in 1..(Len(text_lines) + 1)
    /\ Len(origin) = Len(nodes)

\* ------------------------------------------------- vocabulary of the claims
NodeIds == 1..Len(nodes)

Max(S) == CHOOSE x \in S : \A y \in S : x >= y

\* earlier nodes whose level is exactly one less than that of n
Candidates(n) == {m \in 1..(n - 1) : nodes[m].level = nodes[n].level - 1}

Range(s) == {s[i] : i \in 1..Len(s)}

\* nodes reachable from the set S through children lists
RECURSIVE Descend(_)
Descend(S) ==
    LET T == S \cup UNION {Range(nodes[m].children) : m \in S}
    IN  IF T = S THEN S ELSE Descend(T)

Reachable == Descend(Range(root_nodes))

\* number of positions of the sequence s holding n
Count(s, n) == Cardinality({i \in 1..Len(s) : s[i] = n})

RECURSIVE SumOver(_, _)
SumOver(S, n) ==
    IF S = {} THEN 0
    ELSE LET m == CHOOSE x \in S : TRUE
         IN  Count(nodes[m].children, n) + SumOver(S \ {m}, n)

\* occurrences of n in the root sequence and in all children lists together
Occurrences(n) == Count(root_nodes, n) + SumOver(NodeIds, n)

\* n, n.parent, n.parent.parent, ... up to k steps; 0 once the chain has ended
RECURSIVE Ancestor(_, _)
Ancestor(n, k) == IF k = 0 \/ n = None THEN n ELSE Ancestor(nodes[n].parent, k - 1)

\* the traversal of print_tree: each node, then its children, then the rest
RECURSIVE print_tree(_)
print_tree(forest) ==
    IF forest = <<>> THEN <<>>
    ELSE <<Head(forest)>> \o print_tree(nodes[Head(forest)].children) \o print_tree(Tail(forest))

Increasing(s) == \A i \in 1..(Len(s) - 1) : s[i] < s[i + 1]

NonBlank(line) == \E i \in 1..Len(line) : line[i] \notin Whitespace

\* ------------------------------------------------------------------ claims

\* C1: a node that has a parent has the nearest preceding node whose level is
\* exactly one less, attached or not, and a node of level > 0 has a parent
\* exactly when such a preceding node exists.
C1_NearestParent ==
    \A n \in NodeIds :
        /\ nodes[n].parent # None =>
              /\ Candidates(n) # {}
              /\ nodes[n].parent = Max(Candidates(n))
        /\ nodes[n].level > 0 => (nodes[n].parent # None <=> Candidates(n) # {})

\* a node chose the later of two candidates, and that one is itself unattached
C1_Witness ==
    /\ pc = "returned"
    /\ \E n \in NodeIds :
          /\ Cardinality(Candidates(n)) >= 2
          /\ nodes[n].parent # None
          /\ nodes[nodes[n].parent].level > 0
          /\ nodes[nodes[n].parent].parent = None

\* C2: the depth-first traversal of the forest (roots in order, each followed
\* by its children) visits the nodes in input order.
C2_OrderPreserved == Increasing(print_tree(root_nodes))

\* C3: after any prefix of the input, a node with a parent is one level below it.
C3_LevelConsistency ==
    \A n \in NodeIds :
        nodes[n].parent # None => nodes[n].level = nodes[nodes[n].parent].level + 1

\* in the middle of the input, a level-2 node hangs under a level-1 node
C3_Witness ==
    /\ pc = "loop"
    /\ idx <= Len(text_lines)
    /\ \E n \in NodeIds : nodes[n].parent # None /\ nodes[n].level = 2

\* C4: the builder raises no error, whatever the level of a line.
C4_NoError == pc # "raised"

\* C5 as stated: a node's text is its line without leading and trailing whitespace.
C5_StrippedBothEnds ==
    \A n \in NodeIds :
        /\ nodes[n].text # <<>>
        /\ nodes[n].text[1] \notin Whitespace
        /\ nodes[n].text[Len(nodes[n].text)] \notin Whitespace

\* C5 amended: a node's text is its line without the leading whitespace only;
\* what follows the first non-whitespace character is kept as it is.
C5_LeadingStripped ==
    \A n \in NodeIds :
        LET line == text_lines[origin[n]]
            text == nodes[n].text
            k == Len(line) - Len(text)
        IN  /\ text # <<>>
            /\ text[1] \notin Whitespace
            /\ k >= 0
            /\ \A i \in 1..k : line[i] \in Whitespace
            /\ \A i \in 1..Len(text) : line[k + i] = text[i]

\* a line with whitespace on both sides became a node that keeps the trailing one
C5_Witness ==
    \E n \in NodeIds :
        /\ text_lines[origin[n]][1] \in Whitespace
        /\ nodes[n].text[Len(nodes[n].text)] \in Whitespace

\* C6: a node of level k > 0 with no earlier node of level k-1 has no parent,
\* is not a root and is not reachable from the forest; an input whose only
\* non-blank line is at level 1 returns an empty forest.
C6_OrphanPolicy ==
    /\ \A n \in NodeIds :
          (nodes[n].level > 0 /\ Candidates(n) = {}) =>
              /\ nodes[n].parent = None
              /\ n \notin Range(root_nodes)
              /\ n \notin Reachable
    /\ (pc = "returned" /\ Len(nodes) = 1 /\ nodes[1].level = 1) => root_nodes = <<>>

\* an orphan was dropped from a forest that does have roots
C6_Witness ==
    /\ pc = "returned"
    /\ root_nodes # <<>>
    /\ \E n \in NodeIds : nodes[n].level > 0 /\ Candidates(n) = {}

C7_WitnessNoRoots ==
    /\ pc = "exit"
    /\ report = "no_tree"
    /\ nodes # <<>>

\* C8: every node reachable from the forest lies in the subtree of the most
\* recent level-0 node at or before it.
C8_NoLeak ==
    \A n \in Reachable :
        LET roots == {r \in 1..n : nodes[r].level = 0}
        IN  roots # {} /\ n \in Descend({Max(roots)})

\* C9: every node occurs at most once among the roots and the children lists,
\* a node is in the children list of q exactly when q is its parent, parent
\* chains end without revisiting a node, and a step never changes the parent a
\* node got in the step that created it.
C9_State ==
    \A n \in NodeIds :
        /\ Occurrences(n) <= 1
        /\ \A q \in NodeIds : Count(nodes[q].children, n) = (IF nodes[n].parent = q THEN 1 ELSE 0)
        /\ Ancestor(n, Len(nodes)) = None

C9_Step == \A n \in NodeIds : n \in 1..Len(nodes') /\ nodes'[n].parent = nodes[n].parent

C9_AttachOnce == []C9_State /\ [][C9_Step]_vars

\* a parent with two children, before the input is exhausted
C9_Witness ==
    /\ pc = "loop"
    /\ \E q \in NodeIds : Len(nodes[q].children) >= 2

\* C10: the root sequence is the nodes of level 0 in input order, none of them
\* has a parent, and the returned forest is empty exactly when the input has
\* no non-blank line of level 0.
C10_Roots ==
    /\ Increasing(root_nodes)
    /\ Range(root_nodes) = {n \in NodeIds : nodes[n].level = 0}
    /\ \A n \in Range(root_nodes) : nodes[n].parent = None
    /\ pc = "returned" =>
          (root_nodes = <<>> <=>
              ~ \E i \in 1..Len(text_lines) :
                    NonBlank(text_lines[i]) /\ LeadingCount(text_lines[i]) < INDENT_WIDTH)

\* several roots returned, with deeper nodes in between
C10_Witness ==
    /\ pc = "returned"
    /\ Len(root_nodes) >= 2
    /\ Len(nodes) > Len(root_nodes)
====
